---------------------------- MODULE Spec2Model ----------------------------
(***************************************************************************)
(* Model of the prediction core of OpenSalesAI (services/ai-service/app/ml) *)
(*                                                                         *)
(*   route_optimizer.py   RouteOptimizer.optimize and its three paths      *)
(*   stockout.py, credit_score.py, attrition.py                            *)
(*                        the risk predictors: persistence of the          *)
(*                        model+scaler pair, the two scoring paths, the    *)
(*                        level / tier tables                              *)
(*   demand_forecast.py   DemandForecaster: train, load-on-first-use,      *)
(*                        predict                                          *)
(*                                                                         *)
(* The components share no state.  Each has its own specification         *)
(* (SpecRoute, SpecRisk, SpecDemand), in which `component` enables its     *)
(* actions and the variables of the others stay at their initial value.    *)
(*                                                                         *)
(* Units.  Python floats are modelled by integers:                         *)
(*   distances    metres                                                   *)
(*   probability  1/10000 (so that round(p, 3) is a real conversion)       *)
(*   credit score 1/10 of a point before round(), points after             *)
(***************************************************************************)
EXTENDS Integers, Sequences, FiniteSets

VARIABLES
    component,  \* the component the behaviour exercises; they share no state
    route,      \* the OptimizedRoute returned by the last optimize() call
    dom,        \* the risk domain the predictor under study belongs to
    disk,       \* the two artifacts in the predictor's model_dir
    inst,       \* the predictor instance: _model and _scaler
    runs,       \* number of training runs so far
    pred,       \* the last predict()/score() call and the value it returned
    dhist,      \* demand: rows of history the database holds for the key
    dfiles,     \* demand: the two artifacts of the key in model_dir
    dmem,       \* demand: the forecaster: _db, _prophet_models, _xgb_models
    druns,      \* demand: number of training runs so far
    dcall,      \* demand: the last train()/predict() call and its outcome
    conc,       \* concurrency: predictors loading while a trainer saves
    over,       \* concurrency: overlapping predict calls on one forecaster
    fvec,       \* the feature vector the last trained-branch call built
    tasks,      \* the tasks the last _rule_based_tasks call generated
    roll        \* the residual model's day-by-day rollout in progress

vars == <<component, route, dom, disk, inst, runs, pred,
          dhist, dfiles, dmem, druns, dcall, conc, over, fvec, tasks, roll>>

routeVars  == <<route>>
riskVars   == <<dom, disk, inst, runs, pred>>
demandVars == <<dhist, dfiles, dmem, druns, dcall>>
extraVars  == <<conc, over, fvec, tasks, roll>>

None == "None"

Abs(x) == IF x < 0 THEN -x ELSE x

Range(s) == {s[i] : i \in 1..Len(s)}

RECURSIVE SumSeq(_)
SumSeq(s) == IF s = <<>> THEN 0 ELSE Head(s) + SumSeq(Tail(s))

\* Python's round() to a multiple of `unit`: nearest, ties to even.
RoundTo(x, unit) ==
    LET q == x \div unit
        r == x % unit
    IN  IF 2 * r < unit THEN q
        ELSE IF 2 * r > unit THEN q + 1
        ELSE IF q % 2 = 0 THEN q ELSE q + 1

(***************************************************************************)
(*                         ROUTE OPTIMIZER                                 *)
(***************************************************************************)

\* Bound: the largest number of stops fetched for one optimize() call.
MaxStops == 4

\* Latitudes (degrees) of the stops and of the start location.  All points
\* lie on one meridian, where the great-circle distance is R * dlat.
Lats == {0, 1, 3}

\* store_id of the synthetic start node ("start" in the source).
StartId == 0

\* start = None: optimize() was given no start_location.
NoStart == -1

StartLocations == Lats \cup {NoStart}

\* Metres of one degree of arc: 6371.0 km * pi / 180.
MetresPerDegree == 111195

AVG_SPEED_KMH == 25

\* _haversine_km for two points of the same meridian, in metres.
Haversine(lat1, lat2) == MetresPerDegree * Abs(lat2 - lat1)

\* StoreLocation: the fields the route computation reads.
StoreLocation(id, lat) == [store_id |-> id, lat |-> lat]

\* The rows _fetch_store_locations returns: stops with distinct ids.
FetchedStores == UNION {[1..n -> Lats] : n \in 0..MaxStops}

Stores(lats) == [i \in 1..Len(lats) |-> StoreLocation(i, lats[i])]

\* nodes: the start location (index 0) followed by the stores, or the stores
\* alone with the first one as depot.
Nodes(stores, start) ==
    IF start # NoStart THEN <<StoreLocation(StartId, start)>> \o stores
    ELSE stores

\* Python index idx of a list is element idx + 1 of the sequence.
At(list, idx) == list[idx + 1]

_build_distance_matrix(nodes) ==
    [i \in 0..Len(nodes) - 1 |->
        [j \in 0..Len(nodes) - 1 |->
            IF i = j THEN 0
            ELSE Haversine(At(nodes, i).lat, At(nodes, j).lat)]]

Orderings(S) ==
    {s \in [1..Cardinality(S) -> S] : \A x \in S : \E i \in DOMAIN s : s[i] = x}

\* What _solve_tsp can return for n nodes: OR-Tools' route of vehicle 0 is a
\* tour of all nodes from the depot; the loop stops at the end index, and the
\* statement after the loop appends the node of the end index, which is the
\* depot again.
SolveTspRoutes(n, depot) ==
    {<<depot>> \o p \o <<depot>> : p \in Orderings((0..n - 1) \ {depot})}

\* The scan of the candidates with nodes at distance 0 passed over.
Nearest_skips_zero(matrix, n, visited, current) ==
    LET cand == {j \in (0..n - 1) \ visited : matrix[current][j] > 0}
    IN  IF cand = {} THEN -1
        ELSE CHOOSE j \in cand :
                \A k \in cand :
                    \/ matrix[current][j] < matrix[current][k]
                    \/ (matrix[current][j] = matrix[current][k] /\ j <= k)

\* for j in range(n): if j not in visited and d[current][j] < nearest_dist
Nearest(matrix, n, visited, current) ==
    LET cand == (0..n - 1) \ visited
    IN  IF cand = {} THEN -1
        ELSE CHOOSE j \in cand :
                \A k \in cand :
                    \/ matrix[current][j] < matrix[current][k]
                    \/ (matrix[current][j] = matrix[current][k] /\ j <= k)

RECURSIVE NearestLoop(_, _, _, _, _)
NearestLoop(matrix, n, visited, rt, current) ==
    IF Cardinality(visited) >= n THEN rt
    ELSE LET nearest == Nearest(matrix, n, visited, current)
         IN  IF nearest = -1 THEN rt
             ELSE NearestLoop(matrix, n, visited \cup {nearest},
                              Append(rt, nearest), nearest)

_nearest_neighbour(matrix, n, depot) ==
    NearestLoop(matrix, n, {depot}, <<depot>>, depot)

\* for i in range(len(route_indices) - 1): total_dist += d[from][to]
RouteLength(matrix, route_indices) ==
    SumSeq([i \in 1..Len(route_indices) - 1 |->
                matrix[route_indices[i]][route_indices[i + 1]]])

\* for idx in route_indices: skip the start depot, append nodes[idx]
RECURSIVE OrderedStores(_, _, _)
OrderedStores(nodes, start, route_indices) ==
    IF route_indices = <<>> THEN <<>>
    ELSE LET idx  == Head(route_indices)
             rest == OrderedStores(nodes, start, Tail(route_indices))
         IN  IF start # NoStart /\ idx = 0 THEN rest
             ELSE <<At(nodes, idx).store_id>> \o rest

\* total_distance_km = round(total_dist, 2), in hundredths of a km.
RoundKm2(metres) == RoundTo(metres, 10)

NoRoute == [called |-> FALSE]

OptimizedRoute(stores, start, path, route_indices, ordered, total_dist, status) ==
    [called              |-> TRUE,
     stores              |-> stores,
     start               |-> start,
     path                |-> path,
     route_indices       |-> route_indices,
     ordered_stores      |-> ordered,
     total_distance_km   |-> RoundKm2(total_dist),
     optimization_status |-> status]

StoreIds(stores) == [i \in 1..Len(stores) |-> stores[i].store_id]

otherThanRoute == <<component, riskVars, demandVars, extraVars>>

\* optimize(): no store is found.
OptimizeNoStores ==
    /\ component = "route"
    /\ ~route.called
    /\ \E start \in StartLocations :
        route' = OptimizedRoute(<<>>, start, "empty", <<>>, <<>>, 0, "not_solved")
    /\ UNCHANGED otherThanRoute

\* The direct distance with a leg back to the first stop added.
TrivialDistance_round_trip(ordered, start) ==
    (IF start # NoStart THEN Haversine(start, ordered[1].lat) ELSE 0)
    + (IF Len(ordered) = 2
       THEN 2 * Haversine(ordered[1].lat, ordered[2].lat) ELSE 0)

\* optimize(): 1-2 stores, no optimization.
TrivialDistance(ordered, start) ==
    (IF start # NoStart THEN Haversine(start, ordered[1].lat) ELSE 0)
    + (IF Len(ordered) = 2 THEN Haversine(ordered[1].lat, ordered[2].lat) ELSE 0)

OptimizeTrivial ==
    /\ component = "route"
    /\ ~route.called
    /\ \E lats \in FetchedStores, start \in StartLocations :
        /\ Len(lats) >= 1
        /\ Len(lats) <= 2
        /\ LET stores == Stores(lats)
           IN  route' = OptimizedRoute(stores, start, "trivial", <<>>,
                                       StoreIds(stores),
                                       TrivialDistance(stores, start), "optimal")
    /\ UNCHANGED otherThanRoute

\* The part of optimize() after route_indices is known.
BuildResult(stores, start, path, route_indices) ==
    LET nodes  == Nodes(stores, start)
        matrix == _build_distance_matrix(nodes)
    IN  OptimizedRoute(stores, start, path, route_indices,
                       OrderedStores(nodes, start, route_indices),
                       RouteLength(matrix, route_indices), "optimal")

\* optimize(): 3 or more stores, _solve_tsp returns a route.
OptimizeSolver ==
    /\ component = "route"
    /\ ~route.called
    /\ \E lats \in FetchedStores, start \in StartLocations :
        /\ Len(lats) > 2
        /\ LET stores == Stores(lats)
               n      == Len(Nodes(stores, start))
           IN  \E route_indices \in SolveTspRoutes(n, 0) :
                   route' = BuildResult(stores, start, "solver", route_indices)
    /\ UNCHANGED otherThanRoute

\* optimize(): 3 or more stores, _solve_tsp raises, _nearest_neighbour runs.
OptimizeFallback ==
    /\ component = "route"
    /\ ~route.called
    /\ \E lats \in FetchedStores, start \in StartLocations :
        /\ Len(lats) > 2
        /\ LET stores == Stores(lats)
               nodes  == Nodes(stores, start)
               matrix == _build_distance_matrix(nodes)
           IN  route' = BuildResult(stores, start, "fallback",
                                    _nearest_neighbour(matrix, Len(nodes), 0))
    /\ UNCHANGED otherThanRoute

\* The caller takes the OptimizedRoute; the optimizer keeps nothing of a call.
RouteReturned ==
    /\ component = "route"
    /\ route.called
    /\ route' = NoRoute
    /\ UNCHANGED otherThanRoute

NextRoute ==
    \/ OptimizeNoStores
    \/ OptimizeTrivial
    \/ OptimizeSolver
    \/ OptimizeFallback
    \/ RouteReturned


(***************************************************************************)
(*        RISK PREDICTORS: the persisted model + scaler pair               *)
(*                                                                         *)
(* StockoutPredictor, CreditScorer and AttritionPredictor share one shape: *)
(* __init__ loads the pair from model_dir, train() fits a new pair and     *)
(* saves it, predict()/score() takes the trained or the rule-based path.   *)
(* The API builds a fresh predictor per request (api/predictions.py), so   *)
(* Construct may happen at any time.                                       *)
(***************************************************************************)

Domains == {"stockout", "credit", "churn"}

\* Bound: the number of training runs in one behaviour.
MaxRuns == 2

\* A file of model_dir: absent, a complete pickle written by training run
\* `run`, or a file that open(..., "wb") truncated before pickle.dump failed.
NoFile == [kind |-> "absent"]
CorruptFile == [kind |-> "corrupt"]
PickleOf(run) == [kind |-> "pickle", run |-> run]

\* The value of self._model / self._scaler.
NoObject == [kind |-> "None"]
Fitted(run) == [kind |-> "fitted", run |-> run]

EmptyDir == [model |-> NoFile, scaler |-> NoFile]

NotConstructed == [constructed |-> FALSE, _model |-> NoObject, _scaler |-> NoObject]

Exists(file) == file.kind # "absent"

\* pickle.load: the object of a complete pickle; raises on a truncated one.
Loads(file) == file.kind = "pickle"

\* _load_model without its try/except: a failing pickle.load propagates out
\* of __init__ and the caller gets no instance.
_load_model_unguarded(files, self) ==
    IF Exists(files.model) /\ Exists(files.scaler)
    THEN IF ~Loads(files.model) THEN [self EXCEPT !.constructed = FALSE]
         ELSE IF ~Loads(files.scaler)
              THEN [self EXCEPT !.constructed = FALSE,
                                !._model = Fitted(files.model.run)]
              ELSE [self EXCEPT !._model = Fitted(files.model.run),
                                !._scaler = Fitted(files.scaler.run)]
    ELSE self

\* _load_model reading the model file only: the scaler stays None.
_load_model_without_scaler(files, self) ==
    IF Exists(files.model) /\ Exists(files.scaler) /\ Loads(files.model)
    THEN [self EXCEPT !._model = Fitted(files.model.run)]
    ELSE self

\* _load_model, on an instance whose _model and _scaler are None.  Any
\* exception is caught; the assignments made before it stay.
_load_model(files, self) ==
    IF Exists(files.model) /\ Exists(files.scaler)
    THEN IF ~Loads(files.model) THEN self
         ELSE IF ~Loads(files.scaler)
              THEN [self EXCEPT !._model = Fitted(files.model.run)]
              ELSE [self EXCEPT !._model = Fitted(files.model.run),
                                !._scaler = Fitted(files.scaler.run)]
    ELSE self

\* How the writes of one _save_model call can end.
SaveOutcomes == {"ok", "mkdir_fails",
                 "model_open_fails", "model_dump_fails",
                 "scaler_open_fails", "scaler_dump_fails"}

\* with open(path, "wb") as f: pickle.dump(obj, f)
WriteOk(obj) == PickleOf(obj.run)

\* _save_model: mkdir, the model file, then the scaler file, inside one try
\* whose except only logs.  A failing open leaves the old file; a failing
\* dump leaves the file open() truncated.
_save_model(files, self, outcome) ==
    IF outcome = "mkdir_fails" THEN files
    ELSE IF outcome = "model_open_fails" THEN files
    ELSE IF outcome = "model_dump_fails"
         THEN [files EXCEPT !.model = CorruptFile]
    ELSE LET afterModel ==
                IF self._model.kind # "None"
                THEN [files EXCEPT !.model = WriteOk(self._model)]
                ELSE files
         IN  IF outcome = "scaler_open_fails" THEN afterModel
             ELSE IF outcome = "scaler_dump_fails"
                  THEN [afterModel EXCEPT !.scaler = CorruptFile]
             ELSE IF self._scaler.kind # "None"
                  THEN [afterModel EXCEPT !.scaler = WriteOk(self._scaler)]
                  ELSE afterModel

NoCall == [called |-> FALSE]

otherThanRisk == <<component, route, demandVars, extraVars>>

\* StockoutPredictor(...) / CreditScorer(...) / AttritionPredictor(...):
\* __init__ sets _model and _scaler to None and calls _load_model().
Construct ==
    /\ component = "risk"
    /\ ~pred.called
    /\ inst' = _load_model(disk, [constructed |-> TRUE,
                                  _model |-> NoObject, _scaler |-> NoObject])
    /\ pred' = [called |-> TRUE, op |-> "init"]
    /\ UNCHANGED <<dom, disk, runs, otherThanRisk>>

\* train(training_df): fit the scaler and the model, then _save_model().
Train ==
    /\ component = "risk"
    /\ inst.constructed
    /\ ~pred.called
    /\ runs < MaxRuns
    /\ \E outcome \in SaveOutcomes :
        LET self == [inst EXCEPT !._scaler = Fitted(runs + 1),
                                 !._model = Fitted(runs + 1)]
        IN  /\ inst' = self
            /\ disk' = _save_model(disk, self, outcome)
    /\ runs' = runs + 1
    /\ UNCHANGED <<dom, pred, otherThanRisk>>

(***************************************************************************)
(*        RISK PREDICTORS: scoring                                         *)
(***************************************************************************)

\* 1.0 as a probability, in units of 1/10000.
ProbOne == 10000

Min(a, b) == IF a < b THEN a ELSE b
Max(a, b) == IF a > b THEN a ELSE b

\* round(p, 3) of a probability, still in units of 1/10000.
Round3(p) == RoundTo(p, 10) * 10

\* predict_proba(scaled)[0][1] of a fitted classifier: a probability.  The
\* sample has both sides of every level threshold and values that round(p, 3)
\* moves onto a threshold.
ProbaOutputs == {0, 1000, 3499, 3500, 3996, 4000, 5999, 6000,
                 7996, 7999, 8000, 9500, 10000}

\* XGBRegressor.predict(scaled)[0], in tenths of a point: any real number.
RegressorOutputs == {-250, 0, 344, 346, 350, 544, 546, 550, 744, 746, 750,
                     1000, 1504}

\* ---- stockout ----------------------------------------------------------

\* The features predict() reads on the rule-based path.  lead_time_days is
\* 3.0 when _fetch_features had a database and 0.0 (the default of every
\* feature) when it had none.
StockoutFeatures ==
    [current_stock : {-1, 0, 3, 6, 9, 10, 12, 18, 19},
     avg_daily_consumption : {-1, 0, 1, 2},
     lead_time_days : {0, 3}]

\* The rule table without its current_stock <= 0 row.
StockoutRule_without_zero_stock(f) ==
    IF f.avg_daily_consumption <= 0 THEN 1000
    ELSE IF f.current_stock <= f.lead_time_days * f.avg_daily_consumption THEN 9000
    ELSE IF f.current_stock <= f.lead_time_days * 2 * f.avg_daily_consumption THEN 6000
    ELSE IF f.current_stock <= f.lead_time_days * 3 * f.avg_daily_consumption THEN 3000
    ELSE 1000

\* The rule table with its boundaries exclusive.
StockoutRule_strict(f) ==
    IF f.avg_daily_consumption <= 0 THEN 1000
    ELSE IF f.current_stock <= 0 THEN 9500
    ELSE IF f.current_stock < f.lead_time_days * f.avg_daily_consumption THEN 9000
    ELSE IF f.current_stock < f.lead_time_days * 2 * f.avg_daily_consumption THEN 6000
    ELSE IF f.current_stock < f.lead_time_days * 3 * f.avg_daily_consumption THEN 3000
    ELSE 1000

\* The rule-based fallback of predict(); days_of_stock <= k * lead_time with
\* days_of_stock = current_stock / avg_daily and avg_daily > 0.
StockoutRule(f) ==
    IF f.avg_daily_consumption <= 0 THEN 1000
    ELSE IF f.current_stock <= 0 THEN 9500
    ELSE IF f.current_stock <= f.lead_time_days * f.avg_daily_consumption THEN 9000
    ELSE IF f.current_stock <= f.lead_time_days * 2 * f.avg_daily_consumption THEN 6000
    ELSE IF f.current_stock <= f.lead_time_days * 3 * f.avg_daily_consumption THEN 3000
    ELSE 1000

StockoutRiskLevel(probability) ==
    IF probability >= 8000 THEN "critical"
    ELSE IF probability >= 6000 THEN "high"
    ELSE IF probability >= 4000 THEN "medium"
    ELSE "low"

\* StockoutPrediction(...): probability is Field(ge=0.0, le=1.0).  The
\* factors list and the derived quantities are functions of the features.
StockoutPrediction(f, probability, risk_level) ==
    IF probability < 0 \/ probability > ProbOne
    THEN [outcome |-> "ValidationError"]
    ELSE [outcome |-> "returned",
          value   |-> [probability |-> probability,
                       risk_level  |-> risk_level,
                       features    |-> f]]

\* predict() once the probability is known.
StockoutResult(f, probability) ==
    StockoutPrediction(f, Round3(probability), StockoutRiskLevel(probability))

\* ---- churn -------------------------------------------------------------

\* frequency_trend and aov_trend are in hundredths.
ChurnFeatures ==
    [days_since_last_order : {7, 8, 15, 31},
     frequency_trend : {49, 50, 80},
     aov_trend : {69, 70},
     visit_count_30d : {0, 1}]

\* The four additions of _rule_based_churn to the 0.2 baseline.
ChurnTerms(f) ==
    << IF f.days_since_last_order > 30 THEN 3000
       ELSE IF f.days_since_last_order > 14 THEN 1500
       ELSE IF f.days_since_last_order > 7 THEN 500 ELSE 0,
       IF f.frequency_trend < 50 THEN 2000
       ELSE IF f.frequency_trend < 80 THEN 1000 ELSE 0,
       IF f.aov_trend < 70 THEN 1500 ELSE 0,
       IF f.visit_count_30d = 0 THEN 1000 ELSE 0 >>

\* score = 0.2, then score += term, in IEEE doubles.  Of the 48 sums exactly
\* one differs from the decimal sum in a way a comparison or round(p, 3)
\* can see: 0.2 + 0.3 + 0.2 + 0.1 is 0.7999999999999999, below 0.8.
FloatSum(terms) ==
    IF terms = <<3000, 2000, 0, 1000>> THEN 7999
    ELSE 2000 + SumSeq(terms)

\* return min(1.0, max(0.0, score))
ClipProb(score) == Min(ProbOne, Max(0, score))

_rule_based_churn(f) == ClipProb(FloatSum(ChurnTerms(f)))

\* The thresholds compared with > instead of >=.
ChurnRiskLevel_strict(churn_prob) ==
    IF churn_prob > 8000 THEN "critical"
    ELSE IF churn_prob > 6000 THEN "high"
    ELSE IF churn_prob > 3500 THEN "medium"
    ELSE "low"

\* risk_level of predict(), from the unrounded churn_prob.
ChurnRiskLevel(churn_prob) ==
    IF churn_prob >= 8000 THEN "critical"
    ELSE IF churn_prob >= 6000 THEN "high"
    ELSE IF churn_prob >= 3500 THEN "medium"
    ELSE "low"

\* AttritionPrediction(...): churn_probability is Field(ge=0.0, le=1.0).
AttritionPrediction(f, churn_probability, risk_level) ==
    IF churn_probability < 0 \/ churn_probability > ProbOne
    THEN [outcome |-> "ValidationError"]
    ELSE [outcome |-> "returned",
          value   |-> [probability |-> churn_probability,
                       risk_level  |-> risk_level,
                       features    |-> f]]

ChurnResult(f, churn_prob) ==
    AttritionPrediction(f, Round3(churn_prob), ChurnRiskLevel(churn_prob))

\* ---- credit ------------------------------------------------------------

\* on_time_payment_rate in percent; order_frequency_monthly in thirds of an
\* order (it is total_orders_90d / 3.0).  order_trend is never set by
\* _fetch_features and keeps its default.
CreditFeatures ==
    [on_time_payment_rate : {0, 50, 100},
     order_frequency_monthly : {0, 12},
     avg_order_value : {0, 5000},
     max_days_overdue : {0, 61},
     bounce_count : {0, 30},
     relationship_months : {0, 24},
     order_trend : {0}]

\* The weighted sum of _rule_based_score before rounding, in tenths.
CreditRawScore(f) ==
    500
    + (f.on_time_payment_rate - 50) * 4
    + (IF f.order_frequency_monthly >= 12 THEN 100
       ELSE IF f.order_frequency_monthly >= 6 THEN 50
       ELSE IF f.order_frequency_monthly < 3 THEN -100 ELSE 0)
    + (IF f.avg_order_value >= 5000 THEN 100
       ELSE IF f.avg_order_value >= 2000 THEN 50 ELSE 0)
    - (IF f.max_days_overdue > 60 THEN 250
       ELSE IF f.max_days_overdue > 30 THEN 150
       ELSE IF f.max_days_overdue > 14 THEN 50 ELSE 0)
    - f.bounce_count * 50
    + (IF f.relationship_months >= 24 THEN 100
       ELSE IF f.relationship_months >= 12 THEN 50 ELSE 0)
    + (IF f.order_trend > 0 THEN 50
       ELSE IF f.order_trend < 0 THEN -50 ELSE 0)

\* round() without the clip to [0, 100].
ClipScore_unclipped(tenths) == RoundTo(tenths, 10)

\* int(max(0, min(100, round(x)))) for x in tenths of a point.
ClipScore(tenths) == Max(0, Min(100, RoundTo(tenths, 10)))

_rule_based_score(f) == ClipScore(CreditRawScore(f))

\* TIER_THRESHOLDS, in the dict's order.
TIER_THRESHOLDS == << <<"A", 75>>, <<"B", 55>>, <<"C", 35>>, <<"D", 0>> >>

\* tier = "D"; for t, threshold in TIER_THRESHOLDS.items(): first match.
RECURSIVE TierLoop(_, _)
TierLoop(score, table) ==
    IF table = <<>> THEN "D"
    ELSE IF score >= Head(table)[2] THEN Head(table)[1]
    ELSE TierLoop(score, Tail(table))

\* The loop over the table read from its last entry to its first.
Tier_reversed(score) ==
    TierLoop(score, << <<"D", 0>>, <<"C", 35>>, <<"B", 55>>, <<"A", 75>> >>)

\* The tier of score().
Tier(score) == TierLoop(score, TIER_THRESHOLDS)

\* CreditScore(...): score is Field(ge=0, le=100).
CreditScore(f, tier, score) ==
    IF score < 0 \/ score > 100
    THEN [outcome |-> "ValidationError"]
    ELSE [outcome |-> "returned",
          value   |-> [score |-> score, tier |-> tier, features |-> f]]

CreditResult(f, score) == CreditScore(f, Tier(score), score)

\* ---- the call ----------------------------------------------------------

Features(d) ==
    IF d = "stockout" THEN StockoutFeatures
    ELSE IF d = "credit" THEN CreditFeatures
    ELSE ChurnFeatures

ModelOutputs(d) == IF d = "credit" THEN RegressorOutputs ELSE ProbaOutputs

\* The guard without its scaler half.
HasTrainedState_model_only(self) == self._model.kind # "None"

\* if self._model is not None and self._scaler is not None
HasTrainedState(self) == self._model.kind # "None" /\ self._scaler.kind # "None"

\* The trained branch: the model's output, and for credit the clip.
TrainedScore(d, out) == IF d = "credit" THEN ClipScore(out) ELSE out

\* The else branch.
RuleScore(d, f) ==
    IF d = "stockout" THEN StockoutRule(f)
    ELSE IF d = "credit" THEN _rule_based_score(f)
    ELSE _rule_based_churn(f)

Result(d, f, score) ==
    IF d = "stockout" THEN StockoutResult(f, score)
    ELSE IF d = "credit" THEN CreditResult(f, score)
    ELSE ChurnResult(f, score)

\* What one predict()/score() call did: the branch taken, what the branch
\* used, the score it computed and what the call returned or raised.
Call(d, f, path, self, score) ==
    [called      |-> TRUE,
     op          |-> "predict",
     path        |-> path,
     used_model  |-> IF path = "trained" THEN self._model ELSE NoObject,
     used_scaler |-> IF path = "trained" THEN self._scaler ELSE NoObject,
     features    |-> f,
     score       |-> score,
     result      |-> Result(d, f, score)]

\* predict()/score() with a trained state: scaler.transform, then the model.
PredictTrained ==
    /\ component = "risk"
    /\ inst.constructed
    /\ ~pred.called
    /\ HasTrainedState(inst)
    /\ \E f \in Features(dom), out \in ModelOutputs(dom) :
        pred' = Call(dom, f, "trained", inst, TrainedScore(dom, out))
    /\ UNCHANGED <<dom, disk, inst, runs, otherThanRisk>>

\* predict()/score() without one: the rule-based function.
PredictRuleBased ==
    /\ component = "risk"
    /\ inst.constructed
    /\ ~pred.called
    /\ ~HasTrainedState(inst)
    /\ \E f \in Features(dom) :
        pred' = Call(dom, f, "rule", inst, RuleScore(dom, f))
    /\ UNCHANGED <<dom, disk, inst, runs, otherThanRisk>>

\* ---- scan_all ------------------------------------------------------------

\* Bound: the number of store-product pairs the scan query returns.
MaxCombos == 2

\* settings.STOCKOUT_THRESHOLD = 0.7
STOCKOUT_THRESHOLD == 7000

\* Features of the pairs of a scan: rule probabilities 0.95, 0.9 and 0.6.
ScanFeatures ==
    [current_stock : {0, 3, 6}, avg_daily_consumption : {1}, lead_time_days : {3}]

\* Model outputs for the pairs of a scan: just below the threshold, moved
\* onto it by round(p, 3), and above it.
ScanProbaOutputs == {6994, 6996, 9500}

\* What self.predict(...) can do for one pair on this instance: raise (a
\* failing inference, a row the result model rejects), or return.
RaisedOutcome == [raised |-> TRUE]

ScanOutcomes(self) ==
    {RaisedOutcome}
    \cup {[raised |-> FALSE, prediction |-> r.value] :
            r \in IF HasTrainedState(self)
                  THEN {StockoutResult(f, out) :
                            f \in {[current_stock |-> 3,
                                    avg_daily_consumption |-> 1,
                                    lead_time_days |-> 3]},
                            out \in ScanProbaOutputs}
                  ELSE {StockoutResult(f, StockoutRule(f)) : f \in ScanFeatures}}

\* result.alerts.sort(key=lambda a: a.probability, reverse=True): stable.
RECURSIVE InsertAlert(_, _)
InsertAlert(sorted, a) ==
    IF sorted = <<>> THEN <<a>>
    ELSE IF Head(sorted).prediction.probability >= a.prediction.probability
         THEN <<Head(sorted)>> \o InsertAlert(Tail(sorted), a)
         ELSE <<a>> \o sorted

RECURSIVE SortAlerts(_)
SortAlerts(alerts) ==
    IF alerts = <<>> THEN <<>>
    ELSE InsertAlert(SortAlerts(SubSeq(alerts, 1, Len(alerts) - 1)),
                     alerts[Len(alerts)])

\* The loop that ends at the first pair whose predict raises.
RECURSIVE ScanLoop_aborts(_, _, _, _)
ScanLoop_aborts(outcomes, i, attempted, alerts) ==
    IF i > Len(outcomes) THEN [attempted |-> attempted, alerts |-> alerts]
    ELSE IF outcomes[i].raised
         THEN [attempted |-> attempted \cup {i}, alerts |-> alerts]
    ELSE ScanLoop_aborts(outcomes, i + 1, attempted \cup {i},
                  IF outcomes[i].prediction.probability >= STOCKOUT_THRESHOLD
                  THEN Append(alerts, [combo |-> i,
                                       prediction |-> outcomes[i].prediction])
                  ELSE alerts)

\* for combo in combos: try: predict, append if at or above the threshold;
\* except Exception: log.  attempted: the pairs predict was called for.
RECURSIVE ScanLoop(_, _, _, _)
ScanLoop(outcomes, i, attempted, alerts) ==
    IF i > Len(outcomes) THEN [attempted |-> attempted, alerts |-> alerts]
    ELSE IF outcomes[i].raised
         THEN ScanLoop(outcomes, i + 1, attempted \cup {i}, alerts)
    ELSE ScanLoop(outcomes, i + 1, attempted \cup {i},
                  IF outcomes[i].prediction.probability >= STOCKOUT_THRESHOLD
                  THEN Append(alerts, [combo |-> i,
                                       prediction |-> outcomes[i].prediction])
                  ELSE alerts)

\* StockoutScanResult: the fields that depend on the pairs.
StockoutScanResult(total_scanned, alerts) ==
    [total_scanned |-> total_scanned, alerts |-> alerts]

\* scan_all(company_id) for the pairs `outcomes` stands for.
scan_all(has_db, outcomes) ==
    IF ~has_db
    THEN [called |-> TRUE, op |-> "scan", has_db |-> FALSE, combos |-> <<>>,
          attempted |-> {}, result |-> StockoutScanResult(0, <<>>)]
    ELSE LET loop == ScanLoop(outcomes, 1, {}, <<>>)
         IN  [called |-> TRUE, op |-> "scan", has_db |-> TRUE,
              combos |-> outcomes,
              attempted |-> loop.attempted,
              result |-> StockoutScanResult(Len(outcomes), SortAlerts(loop.alerts))]

ScanAll ==
    /\ component = "risk"
    /\ dom = "stockout"
    /\ inst.constructed
    /\ ~pred.called
    /\ \E has_db \in BOOLEAN, n \in 0..MaxCombos :
       \E outcomes \in [1..n -> ScanOutcomes(inst)] :
            /\ ~has_db => n = 0
            /\ pred' = scan_all(has_db, outcomes)
    /\ UNCHANGED <<dom, disk, inst, runs, otherThanRisk>>

\* The caller takes the predictor, the prediction or the scan result.
PredictReturned ==
    /\ component = "risk"
    /\ pred.called
    /\ pred' = NoCall
    /\ UNCHANGED <<dom, disk, inst, runs, otherThanRisk>>

NextRisk ==
    \/ Construct
    \/ Train
    \/ PredictTrained
    \/ PredictRuleBased
    \/ ScanAll
    \/ PredictReturned


(***************************************************************************)
(*        DEMAND FORECASTER                                                *)
(*                                                                         *)
(* One store-product key.  The trend model (Prophet) and the residual      *)
(* model (XGBoost) are cached per key in two dicts and persisted in two    *)
(* files, <key>_prophet.pkl and <key>_xgb.pkl.                             *)
(***************************************************************************)

\* Bound: the number of demand training runs in one behaviour.
MaxDemandRuns == 2

\* train() needs at least this many rows.
MinRows == 14

\* The largest lag feature; shift(14) leaves the first 14 rows with a NaN.
MaxLag == 14

\* Row counts of a history: none, too few, the minimum, more.
RowCounts == {0, MinRows - 1, MinRows, MinRows + 1, MinRows + MaxLag}

EmptyDemandDir == [prophet |-> NoFile, xgb |-> NoFile]

\* DemandForecaster(db=...): both caches start empty; nothing is loaded.
NewForecaster(db) ==
    [constructed |-> TRUE, _db |-> db, prophet |-> NoObject, xgb |-> NoObject]

NoForecaster ==
    [constructed |-> FALSE, _db |-> FALSE, prophet |-> NoObject, xgb |-> NoObject]

\* key in self._prophet_models / key in self._xgb_models
InCache(obj) == obj.kind # "None"

\* DemandForecaster._load_model(key): each file is loaded if it exists, on
\* its own; any exception is caught and the entries made before it stay.
Demand_load_model(files, self) ==
    IF Exists(files.prophet) /\ ~Loads(files.prophet) THEN self
    ELSE LET afterProphet ==
                IF Exists(files.prophet)
                THEN [self EXCEPT !.prophet = Fitted(files.prophet.run)]
                ELSE self
         IN  IF Exists(files.xgb) /\ Loads(files.xgb)
             THEN [afterProphet EXCEPT !.xgb = Fitted(files.xgb.run)]
             ELSE afterProphet

DemandSaveOutcomes == {"ok", "mkdir_fails",
                       "prophet_open_fails", "prophet_dump_fails",
                       "xgb_open_fails", "xgb_dump_fails"}

\* DemandForecaster._save_model(key)
Demand_save_model(files, self, outcome) ==
    IF outcome = "mkdir_fails" THEN files
    ELSE IF outcome = "prophet_open_fails" THEN files
    ELSE IF outcome = "prophet_dump_fails"
         THEN [files EXCEPT !.prophet = CorruptFile]
    ELSE LET afterProphet ==
                IF InCache(self.prophet)
                THEN [files EXCEPT !.prophet = WriteOk(self.prophet)]
                ELSE files
         IN  IF outcome = "xgb_open_fails" THEN afterProphet
             ELSE IF outcome = "xgb_dump_fails"
                  THEN [afterProphet EXCEPT !.xgb = CorruptFile]
             ELSE IF InCache(self.xgb)
                  THEN [afterProphet EXCEPT !.xgb = WriteOk(self.xgb)]
                  ELSE afterProphet

\* Rows of xgb_df after the lag features and dropna().
RowsAfterDropna(rows) == Max(0, rows - MaxLag)

\* train() that caches the trend model before it counts the rows.
train_caches_first(rows, self, files, run, outcome) ==
    IF rows < MinRows
    THEN [status |-> "skipped", reason |-> "insufficient_data",
          self |-> [self EXCEPT !.prophet = Fitted(run)],
          files |-> files, fitted |-> FALSE]
    ELSE IF RowsAfterDropna(rows) = 0
    THEN [status |-> "raised", reason |-> "IndexError",
          self |-> [self EXCEPT !.prophet = Fitted(run)],
          files |-> files, fitted |-> TRUE]
    ELSE LET trained == [self EXCEPT !.prophet = Fitted(run), !.xgb = Fitted(run)]
         IN  [status |-> "trained", reason |-> "",
              self |-> trained,
              files |-> Demand_save_model(files, trained, outcome),
              fitted |-> TRUE]

\* train(store_id, product_id, history_df) for a history of `rows` rows, as a
\* record: the status returned (or "raised"), and the forecaster and the
\* files afterwards.
\*   rows < 14            returns skipped before anything is touched
\*   no row after dropna  the trend model is cached, then
\*                        xgb_df.iloc[-1] raises; nothing is saved
\*   otherwise            both models are cached, then saved
train(rows, self, files, run, outcome) ==
    IF rows < MinRows
    THEN [status |-> "skipped", reason |-> "insufficient_data",
          self |-> self, files |-> files, fitted |-> FALSE]
    ELSE IF RowsAfterDropna(rows) = 0
    THEN [status |-> "raised", reason |-> "IndexError",
          self |-> [self EXCEPT !.prophet = Fitted(run)],
          files |-> files, fitted |-> TRUE]
    ELSE LET trained == [self EXCEPT !.prophet = Fitted(run), !.xgb = Fitted(run)]
         IN  [status |-> "trained", reason |-> "",
              self |-> trained,
              files |-> Demand_save_model(files, trained, outcome),
              fitted |-> TRUE]

NoDemandCall == [called |-> FALSE]

otherThanDemand == <<component, route, riskVars, extraVars>>

\* A request or a script builds a forecaster, with or without a database.
DemandConstruct ==
    /\ component = "demand"
    /\ ~dcall.called
    /\ \E db \in BOOLEAN : dmem' = NewForecaster(db)
    /\ UNCHANGED <<dhist, dfiles, druns, dcall, otherThanDemand>>

\* A direct train() call with a history of `rows` rows.
DemandTrain ==
    /\ component = "demand"
    /\ dmem.constructed
    /\ ~dcall.called
    /\ druns < MaxDemandRuns
    /\ \E rows \in RowCounts, outcome \in DemandSaveOutcomes :
        LET t == train(rows, dmem, dfiles, druns + 1, outcome)
        IN  /\ dmem' = t.self
            /\ dfiles' = t.files
            /\ druns' = IF t.fitted THEN druns + 1 ELSE druns
            /\ dcall' = [called |-> TRUE, op |-> "train", rows |-> rows,
                         status |-> t.status, reason |-> t.reason,
                         before |-> [self |-> dmem, files |-> dfiles]]
    /\ UNCHANGED <<dhist, otherThanDemand>>

\* predict(store_id, product_id, horizon_days) up to the choice of the path:
\* load if the key has no trend model in memory, then train from the
\* database history if it still has none, then the heuristic if it still
\* has none.
PredictOutcome(self, files, hist, run, outcome) ==
    LET loaded == IF ~InCache(self.prophet) THEN Demand_load_model(files, self)
                  ELSE self
        tried  == ~InCache(loaded.prophet) /\ loaded._db /\ hist >= MinRows
        t      == IF tried THEN train(hist, loaded, files, run, outcome)
                  ELSE [status |-> "none", reason |-> "", self |-> loaded,
                        files |-> files, fitted |-> FALSE]
    IN  [self     |-> t.self,
         files    |-> t.files,
         fitted   |-> t.fitted,
         did_load |-> ~InCache(self.prophet),
         lone     |-> /\ ~InCache(self.prophet)
                      /\ Exists(files.prophet) # Exists(files.xgb),
         loaded   |-> [prophet |-> loaded.prophet, xgb |-> loaded.xgb],
         path     |-> IF t.status = "raised" THEN "raised"
                      ELSE IF ~InCache(t.self.prophet) THEN "heuristic"
                      ELSE "ensemble",
         prophet  |-> IF t.status # "raised" THEN t.self.prophet ELSE NoObject,
         xgb      |-> IF t.status # "raised" /\ InCache(t.self.prophet)
                      THEN t.self.xgb ELSE NoObject]

\* ---- the values of a prediction -----------------------------------------
\* Quantities before rounding are in hundredths of a unit; the fields of a
\* DemandPrediction are in the unit of their round(): predicted_qty and the
\* bounds in tenths, confidence in thousandths.

\* PROPHET_WEIGHT = 0.6 and XGBOOST_WEIGHT = 0.4, in tenths.
PROPHET_WEIGHT == 6
XGBOOST_WEIGHT == 4

\* 1.0 in the unit of the weights.
WeightOne == 10

\* horizon_days: 7, 14 or 30.
Horizons == {7, 14, 30}

\* avg_daily of the 90-day query, in whole units: 0 (no rows, or NULL made 0
\* by COALESCE and by "or 0"), positive, or negative when the quantities of
\* the window sum below zero (quantity is a signed INT).
AvgDailyValues == {-2, 0, 1, 10}

\* DemandPrediction(...): no field is range-validated.
DemandPrediction(horizon_days, predicted_qty, lower_bound, upper_bound, confidence, trend, model_version) ==
    [outcome        |-> "returned",
     horizon_days   |-> horizon_days,
     predicted_qty  |-> predicted_qty,
     lower_bound    |-> lower_bound,
     upper_bound    |-> upper_bound,
     confidence     |-> confidence,
     trend          |-> trend,
     model_version  |-> model_version]

\* The heuristic for a week, whatever horizon is asked.
_heuristic_predict_one_week(avg_daily, horizon_days) ==
    LET predicted == avg_daily * 7 * 100
    IN  DemandPrediction(horizon_days,
                         RoundTo(predicted, 10),
                         RoundTo((predicted * 7) \div 10, 10),
                         RoundTo((predicted * 13) \div 10, 10),
                         300, "stable", "v0-heuristic")

\* _heuristic_predict: predicted = avg_daily * horizon_days, bounds at 0.7
\* and 1.3 of it, each rounded to one decimal.
_heuristic_predict(avg_daily, horizon_days) ==
    LET predicted == avg_daily * horizon_days * 100
    IN  DemandPrediction(horizon_days,
                         RoundTo(predicted, 10),
                         RoundTo((predicted * 7) \div 10, 10),
                         RoundTo((predicted * 13) \div 10, 10),
                         300, "stable", "v0-heuristic")

\* What prophet_model.predict gives over the horizon: the sums of yhat,
\* yhat_lower and yhat_upper (hundredths, yhat_lower <= yhat <= yhat_upper)
\* and the slope of the trend component (tenths).
ProphetForecasts ==
    {[yhat |-> -500,  yhat_lower |-> -900, yhat_upper |-> -100,  slope |-> -6],
     [yhat |-> 1000,  yhat_lower |-> -400, yhat_upper |-> 3000,  slope |-> 5],
     [yhat |-> 10000, yhat_lower |-> 8000, yhat_upper |-> 12000, slope |-> 6]}

\* if trend_slope > 0.5 ... elif trend_slope < -0.5 ... else "stable"
TrendLabel(trend_slope) ==
    IF trend_slope > 5 THEN "increasing"
    ELSE IF trend_slope < -5 THEN "decreasing"
    ELSE "stable"

\* The residual-model rollout: it raises (caught), or it gives the sum of the
\* daily predictions, each max(0, .), in hundredths.
RolloutFailed == [ok |-> FALSE]
XgbRollouts == {RolloutFailed} \cup {[ok |-> TRUE, qty |-> q] : q \in {0, 5000, 11525}}

\* a / b for a >= 0 and b > 0, rounded to the nearest integer, half to even.
RoundDiv(a, b) ==
    LET q == a \div b
        r == a % b
    IN  IF 2 * r < b THEN q
        ELSE IF 2 * r > b THEN q + 1
        ELSE IF q % 2 = 0 THEN q ELSE q + 1

\* max(0, min(1, 1 - interval_width / (ensemble_qty + 1e-6))), rounded to 3
\* decimals; ensemble_qty >= 0, and 1e-6 decides only where it is 0.
Confidence(interval_width, ensemble_qty) ==
    IF ensemble_qty = 0
    THEN IF interval_width > 0 THEN 0 ELSE 1000
    ELSE IF interval_width >= ensemble_qty THEN 0
    ELSE Max(0, Min(1000, RoundDiv((ensemble_qty - interval_width) * 1000,
                                   ensemble_qty)))

\* The ensemble with the two weights exchanged.
EnsemblePredict_swapped_weights(horizon_days, forecast, has_xgb, rollout) ==
    LET prophet_qty   == Max(0, forecast.yhat)
        prophet_lower == Max(0, forecast.yhat_lower)
        prophet_upper == Max(0, forecast.yhat_upper)
        xgb_qty       == IF has_xgb /\ rollout.ok THEN rollout.qty ELSE prophet_qty
        ensemble10    == XGBOOST_WEIGHT * prophet_qty + PROPHET_WEIGHT * xgb_qty
    IN  DemandPrediction(horizon_days,
                         RoundTo(ensemble10, 100),
                         RoundTo(prophet_lower, 10),
                         RoundTo(prophet_upper, 10),
                         Confidence((prophet_upper - prophet_lower) * 10, ensemble10),
                         TrendLabel(forecast.slope),
                         "v1-prophet-xgb")

\* The trained path of predict(), from the Prophet prediction on.  has_xgb:
\* key in self._xgb_models.
EnsemblePredict(horizon_days, forecast, has_xgb, rollout) ==
    LET prophet_qty   == Max(0, forecast.yhat)
        prophet_lower == Max(0, forecast.yhat_lower)
        prophet_upper == Max(0, forecast.yhat_upper)
        xgb_qty       == IF has_xgb /\ rollout.ok THEN rollout.qty ELSE prophet_qty
        \* in thousandths: the weights are in tenths
        ensemble10    == PROPHET_WEIGHT * prophet_qty + XGBOOST_WEIGHT * xgb_qty
    IN  DemandPrediction(horizon_days,
                         RoundTo(ensemble10, 100),
                         RoundTo(prophet_lower, 10),
                         RoundTo(prophet_upper, 10),
                         Confidence((prophet_upper - prophet_lower) * 10, ensemble10),
                         TrendLabel(forecast.slope),
                         "v1-prophet-xgb")

\* The values predict() can end with on the path p took, with their inputs.
PredictResults(p, horizon_days) ==
    IF p.path = "raised"
    THEN {[inputs |-> [path |-> "raised"], result |-> [outcome |-> "raised"]]}
    ELSE IF p.path = "heuristic"
    THEN {[inputs |-> [path |-> "heuristic", avg_daily |-> a],
           result |-> _heuristic_predict(a, horizon_days)] :
            a \in IF p.self._db THEN AvgDailyValues ELSE {0}}
    ELSE {[inputs |-> [path |-> "ensemble", forecast |-> fc, rollout |-> ro],
           result |-> EnsemblePredict(horizon_days, fc, InCache(p.xgb), ro)] :
            fc \in ProphetForecasts,
            ro \in IF InCache(p.xgb) THEN XgbRollouts ELSE {RolloutFailed}}

DemandPredict ==
    /\ component = "demand"
    /\ dmem.constructed
    /\ ~dcall.called
    /\ \E outcome \in DemandSaveOutcomes :
        LET p == PredictOutcome(dmem, dfiles, dhist, druns + 1, outcome)
        IN  /\ p.fitted => druns < MaxDemandRuns
            /\ dmem' = p.self
            /\ dfiles' = p.files
            /\ druns' = IF p.fitted THEN druns + 1 ELSE druns
            /\ \E horizon_days \in Horizons :
               \E r \in PredictResults(p, horizon_days) :
                 dcall' = [called |-> TRUE, op |-> "predict",
                           did_load |-> p.did_load, lone |-> p.lone,
                           loaded |-> p.loaded,
                           path |-> p.path,
                           used_prophet |-> p.prophet, used_xgb |-> p.xgb,
                           before |-> [self |-> dmem, files |-> dfiles],
                           horizon_days |-> horizon_days,
                           inputs |-> r.inputs,
                           result |-> r.result]
    /\ UNCHANGED <<dhist, otherThanDemand>>

\* The caller takes the result.
DemandReturned ==
    /\ component = "demand"
    /\ dcall.called
    /\ dcall' = NoDemandCall
    /\ UNCHANGED <<dhist, dfiles, dmem, druns, otherThanDemand>>

(***************************************************************************)
(*        CONCURRENT LOADS AND SAVES                                       *)
(***************************************************************************)

\* Bound: the predictors constructed at once, and the overlapping predict
\* calls on one forecaster.
NumLoaders == 2

Loaders == 1..NumLoaders

\* What an artifact path can hold when the loads begin: nothing, a file a
\* failed dump left truncated, or the pickle of an earlier training run.
LeftFiles == {NoFile, CorruptFile, PickleOf(0)}

\* ---- predictors of one domain, one model_dir, and one training process ---

\* A predictor not constructed yet.  began is the number of file writes that
\* had happened when its _load_model started; in_window tells whether both
\* of its reads fell between the trainer's two dumps.
NewLoader ==
    [pc |-> "new", began |-> 0, in_window |-> FALSE,
     _model |-> NoObject, _scaler |-> NoObject]

NoConc ==
    [files |-> EmptyDir, writes |-> 0, trainer |-> "idle",
     loader |-> [p \in Loaders |-> NewLoader]]

ConcStarts ==
    {[NoConc EXCEPT !.files = [model |-> m, scaler |-> s]] :
        m \in LeftFiles, s \in LeftFiles}

\* if model_path.exists() and scaler_path.exists()
ExistsStep(files, self) ==
    [self EXCEPT !.pc = IF Exists(files.model) /\ Exists(files.scaler)
                        THEN "load_model" ELSE "done"]

\* self._model = pickle.load(f); an exception ends _load_model in its except.
LoadModelStep(files, self, trainer) ==
    IF Loads(files.model)
    THEN [self EXCEPT !._model = Fitted(files.model.run),
                      !.in_window = (trainer = "model_written"),
                      !.pc = "load_scaler"]
    ELSE [self EXCEPT !.pc = "done"]

\* self._scaler = pickle.load(f)
LoadScalerStep(files, self, trainer) ==
    IF Loads(files.scaler)
    THEN [self EXCEPT !._scaler = Fitted(files.scaler.run),
                      !.in_window = (@ /\ trainer = "model_written"),
                      !.pc = "done"]
    ELSE [self EXCEPT !.in_window = FALSE, !.pc = "done"]

\* ---- overlapping predict calls on one DemandForecaster -------------------

NewPredictCall == [pc |-> "new", did_load |-> FALSE]

NoOverlap ==
    [files |-> EmptyDemandDir,
     mem   |-> NewForecaster(FALSE),
     call  |-> [c \in Loaders |-> NewPredictCall]]

OverlapStarts ==
    {[NoOverlap EXCEPT !.files = [prophet |-> p, xgb |-> x]] :
        p \in LeftFiles, x \in LeftFiles}

\* if key not in self._prophet_models: self._load_model(key)
CheckStep(mem, call) ==
    IF InCache(mem.prophet)
    THEN [call EXCEPT !.pc = "loaded"]
    ELSE [call EXCEPT !.pc = "load_prophet", !.did_load = TRUE]

\* if prophet_path.exists(): self._prophet_models[key] = pickle.load(f)
ProphetLoadStep(files, mem) ==
    IF Exists(files.prophet) /\ Loads(files.prophet)
    THEN [mem EXCEPT !.prophet = Fitted(files.prophet.run)]
    ELSE mem

\* Where _load_model continues after the trend-model file: an exception
\* skips the residual-model file.
AfterProphetLoad(files) ==
    IF Exists(files.prophet) /\ ~Loads(files.prophet)
    THEN "loaded" ELSE "load_xgb"

\* A load of the residual model that drops the entry when one is cached.
XgbLoadStep_toggles(files, mem) ==
    IF InCache(mem.xgb) THEN [mem EXCEPT !.xgb = NoObject]
    ELSE IF Exists(files.xgb) /\ Loads(files.xgb)
         THEN [mem EXCEPT !.xgb = Fitted(files.xgb.run)]
         ELSE mem

\* if xgb_path.exists(): self._xgb_models[key] = pickle.load(f)
XgbLoadStep(files, mem) ==
    IF Exists(files.xgb) /\ Loads(files.xgb)
    THEN [mem EXCEPT !.xgb = Fitted(files.xgb.run)]
    ELSE mem

otherThanConc == <<component, route, riskVars, demandVars, over, fvec, tasks, roll>>
otherThanOver == <<component, route, riskVars, demandVars, conc, fvec, tasks, roll>>

\* __init__ of one more predictor: _model and _scaler are None and
\* _load_model() starts.
LoaderInit ==
    /\ component = "predictors"
    /\ \E p \in Loaders :
        /\ conc.loader[p].pc = "new"
        /\ conc' = [conc EXCEPT !.loader[p].pc = "exists",
                                !.loader[p].began = conc.writes]
    /\ UNCHANGED otherThanConc

LoaderExists ==
    /\ component = "predictors"
    /\ \E p \in Loaders :
        /\ conc.loader[p].pc = "exists"
        /\ conc' = [conc EXCEPT !.loader[p] = ExistsStep(conc.files, @)]
    /\ UNCHANGED otherThanConc

LoaderLoadModel ==
    /\ component = "predictors"
    /\ \E p \in Loaders :
        /\ conc.loader[p].pc = "load_model"
        /\ conc' = [conc EXCEPT !.loader[p] =
                        LoadModelStep(conc.files, @, conc.trainer)]
    /\ UNCHANGED otherThanConc

LoaderLoadScaler ==
    /\ component = "predictors"
    /\ \E p \in Loaders :
        /\ conc.loader[p].pc = "load_scaler"
        /\ conc' = [conc EXCEPT !.loader[p] =
                        LoadScalerStep(conc.files, @, conc.trainer)]
    /\ UNCHANGED otherThanConc

\* _save_model of a train() in another process, its writes succeeding:
\* open(model, "wb") truncates the model file,
TrainerOpenModel ==
    /\ component = "predictors"
    /\ conc.trainer = "idle"
    /\ conc' = [conc EXCEPT !.files.model = CorruptFile,
                            !.writes = @ + 1,
                            !.trainer = "model_open"]
    /\ UNCHANGED otherThanConc

\* pickle.dump(self._model, f) completes it,
TrainerDumpModel ==
    /\ component = "predictors"
    /\ conc.trainer = "model_open"
    /\ conc' = [conc EXCEPT !.files.model = WriteOk(Fitted(1)),
                            !.writes = @ + 1,
                            !.trainer = "model_written"]
    /\ UNCHANGED otherThanConc

\* open(scaler, "wb") truncates the scaler file,
TrainerOpenScaler ==
    /\ component = "predictors"
    /\ conc.trainer = "model_written"
    /\ conc' = [conc EXCEPT !.files.scaler = CorruptFile,
                            !.writes = @ + 1,
                            !.trainer = "scaler_open"]
    /\ UNCHANGED otherThanConc

\* and pickle.dump(self._scaler, f) completes it.
TrainerDumpScaler ==
    /\ component = "predictors"
    /\ conc.trainer = "scaler_open"
    /\ conc' = [conc EXCEPT !.files.scaler = WriteOk(Fitted(1)),
                            !.writes = @ + 1,
                            !.trainer = "done"]
    /\ UNCHANGED otherThanConc

\* predict(): the test of the cache.
OverlapCheck ==
    /\ component = "forecaster"
    /\ \E c \in Loaders :
        /\ over.call[c].pc = "new"
        /\ over' = [over EXCEPT !.call[c] = CheckStep(over.mem, @)]
    /\ UNCHANGED otherThanOver

\* _load_model: the trend-model file.
OverlapLoadProphet ==
    /\ component = "forecaster"
    /\ \E c \in Loaders :
        /\ over.call[c].pc = "load_prophet"
        /\ over' = [over EXCEPT !.mem = ProphetLoadStep(over.files, @),
                                !.call[c].pc = AfterProphetLoad(over.files)]
    /\ UNCHANGED otherThanOver

\* _load_model: the residual-model file.
OverlapLoadXgb ==
    /\ component = "forecaster"
    /\ \E c \in Loaders :
        /\ over.call[c].pc = "load_xgb"
        /\ over' = [over EXCEPT !.mem = XgbLoadStep(over.files, @),
                                !.call[c].pc = "loaded"]
    /\ UNCHANGED otherThanOver

NextRace ==
    \/ LoaderInit
    \/ LoaderExists
    \/ LoaderLoadModel
    \/ LoaderLoadScaler
    \/ TrainerOpenModel
    \/ TrainerDumpModel
    \/ TrainerOpenScaler
    \/ TrainerDumpScaler
    \/ OverlapCheck
    \/ OverlapLoadProphet
    \/ OverlapLoadXgb

(***************************************************************************)
(*        FEATURE VECTORS                                                  *)
(***************************************************************************)

\* StockoutPredictor.FEATURE_NAMES, CreditScorer.FEATURE_NAMES and
\* AttritionPredictor.FEATURE_NAMES, in declared order.
FEATURE_NAMES(d) ==
    IF d = "stockout"
    THEN <<"current_stock", "avg_daily_consumption", "consumption_variance",
           "lead_time_days", "day_of_week", "day_of_month", "month",
           "is_weekend", "days_since_last_restock", "order_frequency_30d",
           "stock_to_consumption_ratio", "trend_slope">>
    ELSE IF d = "credit"
    THEN <<"on_time_payment_rate", "avg_days_to_pay", "max_days_overdue",
           "total_orders_90d", "order_frequency_monthly", "avg_order_value",
           "total_revenue_90d", "order_trend", "bounce_count",
           "relationship_months", "visit_compliance_rate",
           "msl_compliance_rate">>
    ELSE <<"days_since_last_order", "days_since_last_visit",
           "order_frequency_30d", "order_frequency_60d",
           "order_frequency_90d", "frequency_trend", "avg_order_value_30d",
           "avg_order_value_90d", "aov_trend", "total_revenue_90d",
           "msl_compliance_rate", "visit_count_30d", "task_completion_rate",
           "credit_tier_numeric", "relationship_months", "complaints_30d">>

\* Keys of the features dict that are no declared feature and are still in
\* it when the vector is built: the 60-day order value of the churn query.
UndeclaredKeys(d) == IF d = "churn" THEN {"avg_order_value_60d"} ELSE {}

\* The position of a declared feature.
Position(names, k) == CHOOSE i \in 1..Len(names) : names[i] = k

\* The declared features a features dict of the model may lack: the first,
\* two in the middle and the last.
Droppable(d) ==
    LET names == FEATURE_NAMES(d)
    IN  {names[1], names[2], names[8], names[Len(names)]}

\* Values: every feature 0.0 (the dict without a database), or a value that
\* tells the features apart.
Scales == {0, 1, 2}

\* The dict predict()/score() holds after popping the names: the declared
\* features other than the absent ones, and the undeclared keys.
FeaturesDict(d, absent, scale) ==
    LET names == FEATURE_NAMES(d)
        keys  == (Range(names) \ absent) \cup UndeclaredKeys(d)
    IN  [k \in keys |-> IF k \in Range(names)
                        THEN scale * Position(names, k) ELSE 7]

\* The vector built with features[f]: a missing key raises KeyError.
FeatureVector_subscript(names, features) ==
    IF \E i \in 1..Len(names) : names[i] \notin DOMAIN features
    THEN [raised |-> TRUE, vector |-> <<>>]
    ELSE [raised |-> FALSE,
          vector |-> [i \in 1..Len(names) |-> features[names[i]]]]

\* np.array([[features.get(f, 0) for f in self.FEATURE_NAMES]])
FeatureVector(names, features) ==
    [raised |-> FALSE,
     vector |-> [i \in 1..Len(names) |->
                    IF names[i] \in DOMAIN features
                    THEN features[names[i]] ELSE 0]]

NoVector == [called |-> FALSE]
NoTasks == [called |-> FALSE]
NoRollout == [called |-> FALSE]

otherThanVector == <<component, route, riskVars, demandVars, conc, over, tasks, roll>>

\* The trained branch of predict()/score() builds its feature vector.
BuildVector ==
    /\ component = "vector"
    /\ ~fvec.called
    /\ \E d \in Domains, scale \in Scales : \E absent \in SUBSET Droppable(d) :
        LET features == FeaturesDict(d, absent, scale)
        IN  fvec' = [called   |-> TRUE,
                     domain   |-> d,
                     absent   |-> absent,
                     features |-> features,
                     built    |-> FeatureVector(FEATURE_NAMES(d), features)]
    /\ UNCHANGED otherThanVector

VectorReturned ==
    /\ component = "vector"
    /\ fvec.called
    /\ fvec' = NoVector
    /\ UNCHANGED otherThanVector

NextVector ==
    \/ BuildVector
    \/ VectorReturned

(***************************************************************************)
(*        RULE-BASED TASKS                                                 *)
(***************************************************************************)

\* StoreFeatures, the fields _rule_based_tasks branches on.  The days range
\* over both sides of 7, 14 and of 50, where 50 + days reaches 100, and the
\* default 999; the gaps over both sides of 0 and of 10, where 40 + 5 * gaps
\* reaches 90.
StoreFeatures ==
    [days_since_last_order : {-5, 0, 6, 7, 13, 14, 30, 49, 50, 51, 999},
     msl_gaps              : {-1, 0, 1, 9, 10, 11, 50},
     purchase_frequency    : {0, 3, 4}]

\* GeneratedTask(...): priority is Field(ge=0, le=100); a value outside
\* fails validation and the constructor raises.
GeneratedTask(task_type, priority) ==
    [valid |-> priority >= 0 /\ priority <= 100,
     task_type |-> task_type,
     priority |-> priority]

\* The reactivation priority without its cap.
ReactivationPriority_uncapped(store) == 50 + store.days_since_last_order

\* priority=min(100, 50 + store.days_since_last_order)
ReactivationPriority(store) == Min(100, 50 + store.days_since_last_order)

\* priority=min(90, 40 + store.msl_gaps * 5)
MslFillPriority(store) == Min(90, 40 + store.msl_gaps * 5)

\* priority=45
UpsellPriority == 45

\* _rule_based_tasks(store): the tasks in the order the rules append them;
\* raises when a GeneratedTask fails validation.
_rule_based_tasks(store) ==
    LET reactivation ==
            IF store.days_since_last_order >= 14
            THEN <<GeneratedTask("reactivation", ReactivationPriority(store))>>
            ELSE <<>>
        msl_fill ==
            IF store.msl_gaps > 0
            THEN <<GeneratedTask("msl_fill", MslFillPriority(store))>>
            ELSE <<>>
        upsell ==
            IF store.days_since_last_order < 7 /\ store.purchase_frequency >= 4
            THEN <<GeneratedTask("upsell", UpsellPriority)>>
            ELSE <<>>
        built == reactivation \o msl_fill \o upsell
    IN  IF \A i \in 1..Len(built) : built[i].valid
        THEN [raised |-> FALSE, tasks |-> built]
        ELSE [raised |-> TRUE, tasks |-> <<>>]

otherThanTasks == <<component, route, riskVars, demandVars, conc, over, fvec, roll>>

\* _generate_store_tasks falls back to the rules for one store.
RuleBasedTasks ==
    /\ component = "tasks"
    /\ ~tasks.called
    /\ \E store \in StoreFeatures :
        tasks' = [called |-> TRUE, store |-> store,
                  result |-> _rule_based_tasks(store)]
    /\ UNCHANGED otherThanTasks

TasksReturned ==
    /\ component = "tasks"
    /\ tasks.called
    /\ tasks' = NoTasks
    /\ UNCHANGED otherThanTasks

NextTasks ==
    \/ RuleBasedTasks
    \/ TasksReturned

(***************************************************************************)
(*        RESIDUAL MODEL ROLLOUT                                           *)
(***************************************************************************)

\* Bound: the longest horizon rolled out; it exceeds the largest lag, so
\* that every lag comes to read a prediction.
MaxRolloutDays == 15

\* horizon_days: none, a week, and the bound.
RolloutHorizons == {0, 7, MaxRolloutDays}

\* The y column of the cached history_df (xgb_df.tail(30)): a key trained on
\* 15 rows keeps 1, one trained on 16 keeps 2, one trained on 28 keeps 14.
CachedHistories ==
    {<<12>>, <<12, 16>>, [i \in 1..14 |-> 10 + i]}

\* xgb_model.predict(features)[0] for one day: below zero, or above.
RolloutOutputs == {-3, 5}

\* A feature value as a fraction: np.mean is not an integer.
Exact(v) == [num |-> v, den |-> 1]
Mean(seq) == [num |-> SumSeq(seq), den |-> Len(seq)]

\* The lag read one row too early.
LagFeature_one_earlier(y_series, lag) ==
    IF Len(y_series) - lag >= 1
    THEN Exact(y_series[Len(y_series) - lag])
    ELSE Mean(y_series)

\* idx = len(y_series) - lag
\* row[f"lag_{lag}"] = y_series[idx] if idx >= 0 else np.mean(y_series)
\* (idx counts from 0, the sequence from 1)
LagFeature(y_series, lag) ==
    IF Len(y_series) - lag >= 0
    THEN Exact(y_series[Len(y_series) - lag + 1])
    ELSE Mean(y_series)

\* window_data = y_series[-window:]
\* row[f"rolling_mean_{window}"] = np.mean(window_data) if window_data else 0
RollingMean(y_series, window) ==
    LET n == Len(y_series)
        window_data == SubSeq(y_series, Max(1, n - window + 1), n)
    IN  IF window_data # <<>> THEN Mean(window_data) ELSE Exact(0)

\* The row of one day, as far as it depends on the series: the calendar
\* fields come from the clock and the rolling deviations follow the
\* windows of the rolling means.
RolloutRow(y_series) ==
    [lag_1  |-> LagFeature(y_series, 1),
     lag_3  |-> LagFeature(y_series, 3),
     lag_7  |-> LagFeature(y_series, 7),
     lag_14 |-> LagFeature(y_series, 14),
     rolling_mean_7  |-> RollingMean(y_series, 7),
     rolling_mean_14 |-> RollingMean(y_series, 14),
     rolling_mean_30 |-> RollingMean(y_series, 30)]

\* pred = max(0, float(xgb_model.predict(features)[0]))
ClampPrediction(out) == Max(0, out)

NoRow == [lag_1 |-> Exact(0)]

otherThanRollout == <<component, route, riskVars, demandVars, conc, over, fvec, tasks>>

\* predict() reaches the residual model of a cached key:
\* xgb_predictions = []; recent = history_df.copy().
RolloutStart ==
    /\ component = "rollout"
    /\ ~roll.called
    /\ \E history_df \in CachedHistories, horizon_days \in RolloutHorizons :
        roll' = [called          |-> TRUE,
                 status          |-> "rolling",
                 history_df      |-> history_df,
                 before          |-> history_df,
                 recent          |-> history_df,
                 horizon_days    |-> horizon_days,
                 day             |-> 0,
                 row             |-> NoRow,
                 xgb_predictions |-> <<>>,
                 xgb_qty         |-> 0]
    /\ UNCHANGED otherThanRollout

\* One pass of the loop: the row from the working series, the prediction,
\* and the prediction appended to the working series as the next "actual".
RolloutDay ==
    /\ component = "rollout"
    /\ roll.called
    /\ roll.status = "rolling"
    /\ roll.day < roll.horizon_days
    /\ \E out \in RolloutOutputs :
        LET y_series == roll.recent
            clamped  == ClampPrediction(out)
        IN  roll' = [roll EXCEPT !.row = RolloutRow(y_series),
                                 !.xgb_predictions = Append(@, clamped),
                                 !.recent = Append(y_series, clamped),
                                 !.day = @ + 1]
    /\ UNCHANGED otherThanRollout

\* After the loop: xgb_qty = sum(xgb_predictions).
RolloutSum ==
    /\ component = "rollout"
    /\ roll.called
    /\ roll.status = "rolling"
    /\ roll.day = roll.horizon_days
    /\ roll' = [roll EXCEPT !.status = "summed",
                            !.xgb_qty = SumSeq(roll.xgb_predictions)]
    /\ UNCHANGED otherThanRollout

\* xgb_model.predict raises on some day: the except branch logs and the
\* residual estimate keeps its default.
RolloutRaises ==
    /\ component = "rollout"
    /\ roll.called
    /\ roll.status = "rolling"
    /\ roll.day < roll.horizon_days
    /\ roll' = [roll EXCEPT !.status = "failed"]
    /\ UNCHANGED otherThanRollout

RolloutReturned ==
    /\ component = "rollout"
    /\ roll.called
    /\ roll.status # "rolling"
    /\ roll' = NoRollout
    /\ UNCHANGED otherThanRollout

NextRollout ==
    \/ RolloutStart
    \/ RolloutDay
    \/ RolloutSum
    \/ RolloutRaises
    \/ RolloutReturned

(***************************************************************************)
(*        SPECIFICATIONS                                                   *)
(***************************************************************************)

Components ==
    {"route", "risk", "demand", "predictors", "forecaster", "vector", "tasks", "rollout"}

\* The state after construction, for a behaviour exercising component c.
InitOf(c) ==
    /\ component = c
    /\ route = NoRoute
    /\ dom \in (IF c = "risk" THEN Domains ELSE {None})
    /\ disk = EmptyDir
    /\ inst = NotConstructed
    /\ runs = 0
    /\ pred = NoCall
    /\ dhist \in (IF c = "demand" THEN RowCounts ELSE {0})
    /\ dfiles = EmptyDemandDir
    /\ dmem = NoForecaster
    /\ druns = 0
    /\ dcall = NoDemandCall
    /\ conc \in (IF c = "predictors" THEN ConcStarts ELSE {NoConc})
    /\ over \in (IF c = "forecaster" THEN OverlapStarts ELSE {NoOverlap})
    /\ fvec = NoVector
    /\ tasks = NoTasks
    /\ roll = NoRollout

NextDemand ==
    \/ DemandConstruct
    \/ DemandTrain
    \/ DemandPredict
    \/ DemandReturned

InitRoute == InitOf("route")
InitRisk == InitOf("risk")
InitDemand == InitOf("demand")
InitLoad == InitOf("risk") \/ InitOf("demand")
InitRace == InitOf("predictors") \/ InitOf("forecaster")

NextLoad ==
    \/ Construct
    \/ Train
    \/ PredictTrained
    \/ PredictRuleBased
    \/ PredictReturned
    \/ DemandConstruct
    \/ DemandTrain
    \/ DemandPredict
    \/ DemandReturned

SpecRoute == InitRoute /\ [][NextRoute]_vars
SpecRisk == InitRisk /\ [][NextRisk]_vars
SpecDemand == InitDemand /\ [][NextDemand]_vars
\* The predictors and the forecaster, for statements about loading in both.
SpecLoad == InitLoad /\ [][NextLoad]_vars
SpecVector == InitOf("vector") /\ [][NextVector]_vars
SpecTasks == InitOf("tasks") /\ [][NextTasks]_vars
SpecRollout == InitOf("rollout") /\ [][NextRollout]_vars
\* Loads racing each other and a save.
SpecRace == InitRace /\ [][NextRace]_vars

(***************************************************************************)
(*        CLAIMS                                                           *)
(***************************************************************************)

(***************************************************************************)
(* C1.  For every optimize call over N >= 1 fetched stops, with or without *)
(* a start location and whichever path produced the route, ordered_stores  *)
(* is a permutation of exactly those N stops: each once, the synthetic     *)
(* start node not among them.                                              *)
(***************************************************************************)
IsPermutationOfStops(r) ==
    /\ Len(r.ordered_stores) = Len(r.stores)
    /\ Range(r.ordered_stores) = {r.stores[i].store_id : i \in 1..Len(r.stores)}

C1_OrderedStoresIsPermutation ==
    (route.called /\ Len(route.stores) >= 1) => IsPermutationOfStops(route)

(***************************************************************************)
(* C2.  train() persists the new model+scaler pair atomically: after       *)
(* _save_model returns, whether the writes succeeded or one failed, the    *)
(* two artifacts on disk are both from the new run or both as they were    *)
(* before; the disk never holds a half-written or a mixed pair.  From an   *)
(* empty model_dir that is: the two files are always equal, and complete.  *)
(***************************************************************************)
C2_SavedPairIsAtomic ==
    /\ disk.model.kind # "corrupt"
    /\ disk.scaler.kind # "corrupt"
    /\ disk.model = disk.scaler

(***************************************************************************)
(* C3.  When exactly one of the two files of a domain-key exists, the      *)
(* load installs no trained state at all, for the predictors               *)
(* (model file, scaler file) and for the forecaster (trend-model file,     *)
(* residual-model file), so no prediction is made from a lone artifact.    *)
(***************************************************************************)
LonePair(files) == Exists(files.model) # Exists(files.scaler)

C3_PredictorLoadNeedsBoth ==
    (pred.called /\ pred.op = "init" /\ LonePair(disk))
        => (inst._model = NoObject /\ inst._scaler = NoObject)

C3_LoadNeedsBothArtifacts ==
    /\ C3_PredictorLoadNeedsBoth
    /\ (dcall.called /\ dcall.op = "predict" /\ dcall.lone)
        => /\ dcall.loaded.prophet = NoObject
           /\ dcall.loaded.xgb = NoObject
           /\ dcall.path # "ensemble"

(***************************************************************************)
(* C4.  As claimed: on the rule-based stockout path, current_stock <= 0    *)
(* implies probability >= 0.95 whatever the other features are.            *)
(***************************************************************************)
StockoutRuleCall ==
    /\ dom = "stockout"
    /\ pred.called
    /\ pred.op = "predict"
    /\ pred.path = "rule"

C4_ZeroStockIsCritical ==
    (StockoutRuleCall /\ pred.features.current_stock <= 0)
        => pred.result.value.probability >= 9500

(***************************************************************************)
(* C4, amended.  On the rule-based stockout path, current_stock <= 0       *)
(* together with avg_daily_consumption > 0 implies probability >= 0.95,    *)
(* whatever lead_time_days is; avg_daily_consumption <= 0 is tested first  *)
(* and gives 0.1 whatever the stock is.                                    *)
(***************************************************************************)
C4_ZeroStockWithConsumption ==
    /\ (StockoutRuleCall /\ pred.features.current_stock <= 0
                         /\ pred.features.avg_daily_consumption > 0)
        => pred.result.value.probability >= 9500
    /\ (StockoutRuleCall /\ pred.features.avg_daily_consumption <= 0)
        => pred.result.value.probability = 1000

C4_Witness ==
    /\ StockoutRuleCall
    /\ pred.features.current_stock <= 0
    /\ pred.features.avg_daily_consumption > 0
    /\ pred.features.lead_time_days = 0

(***************************************************************************)
(* C5.  Every risk score a call returns lies in its domain's range,        *)
(* whichever path ran: stockout and churn probability in [0, 1], credit    *)
(* score in [0, 100]; and no call ends in the range validation of its      *)
(* result instead of returning.                                            *)
(***************************************************************************)
PredictCall == pred.called /\ pred.op = "predict"

C5_ScoreInRange ==
    PredictCall =>
        /\ pred.result.outcome = "returned"
        /\ IF dom = "credit"
           THEN pred.result.value.score \in 0..100
           ELSE /\ pred.result.value.probability >= 0
                /\ pred.result.value.probability <= 10000

\* The rule-based credit sum went below 0 and the score returned is 0.
C5_Witness ==
    /\ PredictCall
    /\ dom = "credit"
    /\ pred.path = "rule"
    /\ CreditRawScore(pred.features) < 0
    /\ pred.result.outcome = "returned"
    /\ pred.result.value.score = 0

(***************************************************************************)
(* C6.  Each risk-scoring call takes exactly one of two paths: scaled      *)
(* inference when both a model and a scaler are loaded, the rule-based     *)
(* function otherwise.  The rule-based function never runs while both are  *)
(* loaded, and inference never runs without its scaler.                    *)
(***************************************************************************)
C6_OnePathPerCall ==
    PredictCall =>
        LET both == inst._model.kind = "fitted" /\ inst._scaler.kind = "fitted"
        IN  /\ pred.path \in {"trained", "rule"}
            /\ (pred.path = "trained") <=> both
            /\ pred.path = "trained"
                => /\ pred.used_model = inst._model
                   /\ pred.used_scaler = inst._scaler
                   /\ pred.used_scaler.kind = "fitted"

\* A predictor holding a model without a scaler scored by the rules.
C6_Witness ==
    /\ PredictCall
    /\ inst._model.kind = "fitted"
    /\ inst._scaler.kind = "None"
    /\ pred.path = "rule"

(***************************************************************************)
(* C7.  Every stockout, credit and churn prediction carries a model-       *)
(* version tag whose value on the trained path differs from its value on   *)
(* the rule-based path, so the caller can tell from the returned value     *)
(* which path ran: no value returned by the rule-based path is a value     *)
(* the trained path can return.                                            *)
(***************************************************************************)
TrainedResults(d, f) ==
    {Result(d, f, TrainedScore(d, out)) : out \in ModelOutputs(d)}

C7_ReturnedValueTellsPath ==
    (PredictCall /\ pred.path = "rule")
        => pred.result \notin TrainedResults(dom, pred.features)

(***************************************************************************)
(* C8.  AttritionPredictor.predict assigns risk_level as a function of the *)
(* churn probability p alone, on both paths: critical if p >= 0.8, else    *)
(* high if p >= 0.6, else medium if p >= 0.35, else low.                   *)
(***************************************************************************)
C8_ChurnRiskLevel ==
    (PredictCall /\ dom = "churn") =>
        LET p     == pred.score
            level == pred.result.value.risk_level
        IN  /\ (level = "critical") <=> (p >= 8000)
            /\ (level = "high") <=> (p >= 6000 /\ p < 8000)
            /\ (level = "medium") <=> (p >= 3500 /\ p < 6000)
            /\ (level = "low") <=> (p < 3500)

\* The rule-based path at the boundary 0.35.
C8_Witness ==
    /\ PredictCall
    /\ dom = "churn"
    /\ pred.path = "rule"
    /\ pred.score = 3500
    /\ pred.result.value.risk_level = "medium"

(***************************************************************************)
(* C9.  CreditScorer.score maps every integer score s in [0, 100] to tier  *)
(* A if s >= 75, B if 55 <= s < 75, C if 35 <= s < 55 and D if s < 35.     *)
(***************************************************************************)
C9_CreditTier ==
    (PredictCall /\ dom = "credit") =>
        LET s    == pred.result.value.score
            tier == pred.result.value.tier
        IN  /\ (tier = "A") <=> (s >= 75)
            /\ (tier = "B") <=> (s >= 55 /\ s < 75)
            /\ (tier = "C") <=> (s >= 35 /\ s < 55)
            /\ (tier = "D") <=> (s < 35)

\* The boundary 55, from a model output that round() moves onto it.
C9_Witness ==
    /\ PredictCall
    /\ dom = "credit"
    /\ pred.path = "trained"
    /\ pred.result.value.score = 55
    /\ pred.result.value.tier = "B"

(***************************************************************************)
(* C10.  DemandForecaster.train with fewer than 14 history rows returns    *)
(* status=skipped with reason=insufficient_data (it does not raise) and    *)
(* leaves the in-memory caches and the persisted files as they were; with  *)
(* 14 rows or more it does not skip.                                       *)
(***************************************************************************)
C10_TrainSkipsBelow14Rows ==
    (dcall.called /\ dcall.op = "train") =>
        /\ dcall.rows < 14
            => /\ dcall.status = "skipped"
               /\ dcall.reason = "insufficient_data"
               /\ dmem = dcall.before.self
               /\ dfiles = dcall.before.files
        /\ dcall.rows >= 14 => dcall.status # "skipped"

\* 13 rows, on a forecaster that already holds a trained pair.
C10_Witness ==
    /\ dcall.called
    /\ dcall.op = "train"
    /\ dcall.rows = 13
    /\ dcall.status = "skipped"
    /\ InCache(dmem.prophet)
    /\ Exists(dfiles.prophet)

(***************************************************************************)
(* C11.  When the load finds no trained state, the caller of predict       *)
(* always receives a prediction, never an error: with no database, with    *)
(* fewer than 14 rows of history, and with 14 rows or more.                *)
(***************************************************************************)
NothingLoaded ==
    /\ dcall.called
    /\ dcall.op = "predict"
    /\ dcall.did_load
    /\ ~InCache(dcall.loaded.prophet)

C11_UnloadedKeyGetsPrediction ==
    NothingLoaded => dcall.path \in {"heuristic", "ensemble"}

(***************************************************************************)
(* C12.  If reading either artifact fails during _load_model (a corrupt    *)
(* model file, or a corrupt scaler file after the model was read), the     *)
(* constructor does not raise: the caller gets an instance, without a      *)
(* scaler, and without a model if it was the model file that failed.       *)
(* Every predict/score on an instance in that state takes the rule-based   *)
(* path and uses no model.                                                 *)
(***************************************************************************)
ReadFails(files) ==
    /\ Exists(files.model)
    /\ Exists(files.scaler)
    /\ ~Loads(files.model) \/ ~Loads(files.scaler)

C12_CorruptArtifactFallsBack ==
    /\ (pred.called /\ pred.op = "init" /\ ReadFails(disk))
        => /\ inst.constructed
           /\ inst._scaler = NoObject
           /\ ~Loads(disk.model) => inst._model = NoObject
    /\ (PredictCall /\ inst._scaler = NoObject)
        => /\ pred.path = "rule"
           /\ pred.used_model = NoObject
           /\ pred.used_scaler = NoObject
           /\ pred.result.outcome = "returned"

\* A churn predictor built over a corrupt scaler file holds the model alone
\* and predicts by the rules.
C12_Witness ==
    /\ PredictCall
    /\ dom = "churn"
    /\ disk.scaler = CorruptFile
    /\ Loads(disk.model)
    /\ inst._model.kind = "fitted"
    /\ inst._scaler = NoObject
    /\ pred.path = "rule"

(***************************************************************************)
(* C13.  If _solve_tsp raises, optimize does not raise: it returns the     *)
(* route of _nearest_neighbour, whose loop ends, and whose route starts    *)
(* at the depot index 0 and contains every node index 0..n-1 exactly once. *)
(***************************************************************************)
FallbackCall == route.called /\ route.path = "fallback"

C13_FallbackVisitsEveryNodeOnce ==
    FallbackCall =>
        LET n == Len(Nodes(route.stores, route.start))
            r == route.route_indices
        IN  /\ Len(r) = n
            /\ r[1] = 0
            /\ Range(r) = 0..n - 1

\* Four stops, two of them at one place, reached from a start location.
C13_Witness ==
    /\ FallbackCall
    /\ route.start # NoStart
    /\ Len(route.stores) = 4
    /\ route.stores[2].lat = route.stores[3].lat
    /\ Len(route.route_indices) = 5

(***************************************************************************)
(* C14.  The optimization_status returned by optimize tells solver output  *)
(* from greedy-fallback output: the status of a route that came from       *)
(* _nearest_neighbour is not a status reported for a route of the solver.  *)
(***************************************************************************)
SolverStatuses(stores, start) ==
    {BuildResult(stores, start, "solver", r).optimization_status :
        r \in SolveTspRoutes(Len(Nodes(stores, start)), 0)}

C14_StatusTellsFallback ==
    FallbackCall =>
        route.optimization_status \notin SolverStatuses(route.stores, route.start)

(***************************************************************************)
(* C15.  Every DemandPrediction that predict returns, from the ensemble    *)
(* path or from the heuristic path, is well-formed: predicted_qty >= 0,    *)
(* lower_bound >= 0, upper_bound >= 0 and 0 <= confidence <= 1.            *)
(***************************************************************************)
PredictionReturned ==
    /\ dcall.called
    /\ dcall.op = "predict"
    /\ dcall.result.outcome = "returned"

C15_PredictionWellFormed ==
    PredictionReturned =>
        /\ dcall.result.predicted_qty >= 0
        /\ dcall.result.lower_bound >= 0
        /\ dcall.result.upper_bound >= 0
        /\ dcall.result.confidence >= 0
        /\ dcall.result.confidence <= 1000

C17_EnsembleWeights ==
    /\ PROPHET_WEIGHT + XGBOOST_WEIGHT = WeightOne
    /\ (PredictionReturned /\ dcall.path = "ensemble") =>
        LET trend    == Max(0, dcall.inputs.forecast.yhat)
            defaults == ~InCache(dcall.used_xgb) \/ ~dcall.inputs.rollout.ok
            residual == IF defaults THEN trend ELSE dcall.inputs.rollout.qty
        IN  /\ dcall.result.predicted_qty = RoundTo(6 * trend + 4 * residual, 100)
            /\ defaults => dcall.result.predicted_qty = RoundTo(trend, 10)
            /\ dcall.result.model_version = "v1-prophet-xgb"

\* 0.6 x 100 + 0.4 x 115.25 = 106.1
C17_Witness ==
    /\ PredictionReturned
    /\ dcall.path = "ensemble"
    /\ InCache(dcall.used_xgb)
    /\ dcall.inputs.rollout = [ok |-> TRUE, qty |-> 11525]
    /\ dcall.inputs.forecast.yhat = 10000
    /\ dcall.result.predicted_qty = 1061

(***************************************************************************)
(* C18.  In scan_all a prediction failure for one store-product pair never *)
(* aborts the scan: predict is called for every pair, before and after a   *)
(* failing one, and every prediction returned with a probability at or     *)
(* above the alert threshold is in the returned alerts, once.              *)
(***************************************************************************)
ScanCall == pred.called /\ pred.op = "scan"

AlertWorthy(outcome) ==
    /\ ~outcome.raised
    /\ outcome.prediction.probability >= 7000

PairsInResult(result) ==
    {result.alerts[j].combo : j \in 1..Len(result.alerts)}

C19_ScanRecordsFailures ==
    ScanCall =>
        \A i \in 1..Len(pred.combos) :
            pred.combos[i].raised => i \in PairsInResult(pred.result)

(***************************************************************************)
(* C20.  The rule-based stockout probability is 0.1 if                     *)
(* avg_daily_consumption <= 0; else 0.95 if current_stock <= 0; else, with *)
(* days_of_stock = current_stock / avg_daily, 0.9 if days_of_stock <=      *)
(* lead_time, 0.6 if <= 2 x lead_time, 0.3 if <= 3 x lead_time, and 0.1    *)
(* otherwise; every boundary is inclusive.                                 *)
(***************************************************************************)
\* days_of_stock <= k x lead_time, for avg_daily > 0, without the division.
DaysOfStockWithin(f, k) ==
    f.current_stock <= k * f.lead_time_days * f.avg_daily_consumption

C20_StockoutRuleTable ==
    StockoutRuleCall =>
        LET f == pred.features
            p == pred.result.value.probability
        IN  /\ pred.score = p
            /\ f.avg_daily_consumption <= 0 => p = 1000
            /\ f.avg_daily_consumption > 0 =>
                /\ f.current_stock <= 0 => p = 9500
                /\ f.current_stock > 0 =>
                    /\ DaysOfStockWithin(f, 1) => p = 9000
                    /\ (~DaysOfStockWithin(f, 1) /\ DaysOfStockWithin(f, 2))
                            => p = 6000
                    /\ (~DaysOfStockWithin(f, 2) /\ DaysOfStockWithin(f, 3))
                            => p = 3000
                    /\ ~DaysOfStockWithin(f, 3) => p = 1000

\* 6 in stock at 2 a day is 3 days, the lead time: the boundary of 0.9.
C20_Witness ==
    /\ StockoutRuleCall
    /\ pred.features = [current_stock |-> 6, avg_daily_consumption |-> 2,
                        lead_time_days |-> 3]
    /\ pred.result.value.probability = 9000

(***************************************************************************)
(* C21.  With 1 or 2 stops, optimize invokes neither the solver nor the    *)
(* fallback, returns the stops in their fetched order, and reports as      *)
(* total distance the start-to-stop1 leg (only when a start location is    *)
(* given) plus the stop1-to-stop2 leg (only when there are two stops).     *)
(***************************************************************************)
C21_TrivialPath ==
    (route.called /\ Len(route.stores) \in {1, 2}) =>
        LET s        == route.stores
            startLeg == IF route.start # NoStart
                        THEN MetresPerDegree * Abs(s[1].lat - route.start)
                        ELSE 0
            stopLeg  == IF Len(s) = 2
                        THEN MetresPerDegree * Abs(s[2].lat - s[1].lat)
                        ELSE 0
        IN  /\ route.path = "trivial"
            /\ route.route_indices = <<>>
            /\ route.ordered_stores = [i \in 1..Len(s) |-> s[i].store_id]
            /\ route.total_distance_km = RoundTo(startLeg + stopLeg, 10)

\* Two stops and a start: 1 degree to the first stop, 2 more to the second.
C21_Witness ==
    /\ route.called
    /\ route.path = "trivial"
    /\ route.start = 0
    /\ Len(route.stores) = 2
    /\ route.stores[1].lat = 1
    /\ route.stores[2].lat = 3
    /\ route.total_distance_km = RoundTo(3 * MetresPerDegree, 10)

(***************************************************************************)
(* C22.  Saving a trained state and loading it back into a fresh predictor *)
(* of the same domain yields the same model and scaler, so that inference  *)
(* takes the trained branch on the same pair as before the save.  Stated   *)
(* on the step that constructs the fresh predictor: when the files hold    *)
(* what a completed _save_model of the old instance wrote, the new         *)
(* instance's _model and _scaler equal the old instance's.                 *)
(***************************************************************************)
SavedStateOnDisk ==
    /\ inst.constructed
    /\ HasTrainedState(inst)
    /\ disk = [model |-> PickleOf(inst._model.run),
               scaler |-> PickleOf(inst._scaler.run)]

FreshPredictorConstructed ==
    ~pred.called /\ pred'.called /\ pred'.op = "init"

LoadedUndisturbed(p) ==
    conc.loader[p].pc = "done" /\ conc.loader[p].began = conc.writes

OneLoad == _load_model(conc.files, NewLoader)

OneForecasterLoad == Demand_load_model(over.files, NewForecaster(FALSE))

C23_RacingLoadsConverge ==
    /\ \A p \in Loaders :
          LoadedUndisturbed(p) =>
              /\ conc.loader[p]._model = OneLoad._model
              /\ conc.loader[p]._scaler = OneLoad._scaler
    /\ (\A c \in Loaders : over.call[c].pc = "loaded") =>
              /\ over.mem.prophet = OneForecasterLoad.prophet
              /\ over.mem.xgb = OneForecasterLoad.xgb

\* Two predict calls both found the key unloaded, both ran _load_model, and
\* the caches hold the two models of the files.
C23_Witness ==
    /\ component = "forecaster"
    /\ \A c \in Loaders : over.call[c].pc = "loaded" /\ over.call[c].did_load
    /\ over.mem.prophet = Fitted(0)
    /\ over.mem.xgb = Fitted(0)

(***************************************************************************)
(* C27.  A predictor whose two reads fall between the two dumps of another *)
(* process's _save_model (model file written, scaler file not yet) does    *)
(* not end up with a model of one training run and a scaler of another.    *)
(***************************************************************************)
C27_NoMixedPairFromMidSaveLoad ==
    \A p \in Loaders :
        (/\ conc.loader[p].pc = "done"
         /\ conc.loader[p].in_window
         /\ HasTrainedState(conc.loader[p]))
        => conc.loader[p]._model.run = conc.loader[p]._scaler.run

(***************************************************************************)
(* C24.  The feature vector passed to inference has exactly the domain's   *)
(* declared number of features (stockout 12, credit 12, churn 16), in the  *)
(* declared order; a declared feature absent from the features dict        *)
(* appears as 0, and building the vector never raises on a missing key.    *)
(***************************************************************************)
DeclaredCount(d) == IF d = "churn" THEN 16 ELSE 12

C24_FeatureVectorShape ==
    fvec.called =>
        LET names == FEATURE_NAMES(fvec.domain)
            v     == fvec.built.vector
        IN  /\ ~fvec.built.raised
            /\ Len(names) = DeclaredCount(fvec.domain)
            /\ Len(v) = DeclaredCount(fvec.domain)
            /\ \A i \in 1..Len(v) :
                  v[i] = IF names[i] \in fvec.absent
                         THEN 0 ELSE fvec.features[names[i]]

\* A churn vector built from a dict lacking its first and last declared
\* features: zeros at positions 1 and 16, the dict's values in between.
C24_Witness ==
    /\ fvec.called
    /\ fvec.domain = "churn"
    /\ fvec.absent = {"days_since_last_order", "complaints_30d"}
    /\ Len(fvec.built.vector) = 16
    /\ fvec.built.vector[1] = 0
    /\ fvec.built.vector[2] = 4
    /\ fvec.built.vector[15] = 30
    /\ fvec.built.vector[16] = 0

(***************************************************************************)
(* C25.  Every task _rule_based_tasks produces has a priority in 0..100,   *)
(* for all store features, the extremes days_since_last_order = 999 and    *)
(* msl_gaps = 50 included; no task is lost to a failed validation.         *)
(***************************************************************************)
C25_TaskPriorityInRange ==
    tasks.called =>
        /\ ~tasks.result.raised
        /\ \A i \in 1..Len(tasks.result.tasks) :
              /\ tasks.result.tasks[i].priority >= 0
              /\ tasks.result.tasks[i].priority <= 100

\* The store of the repository's edge-case test: both caps apply.
C25_Witness ==
    /\ tasks.called
    /\ tasks.store.days_since_last_order = 999
    /\ tasks.store.msl_gaps = 50
    /\ Len(tasks.result.tasks) = 2
    /\ tasks.result.tasks[1].priority = 100
    /\ tasks.result.tasks[2].priority = 90

(***************************************************************************)
(* C26.  In the residual-model rollout, day d's prediction, clamped to     *)
(* >= 0, is appended to the working series before day d+1's features are   *)
(* built: for day d+1, lag_1 is day d's prediction and lag_k is the        *)
(* prediction made k days earlier once k days have been rolled out.        *)
(* Before that lag_k is the historical value k rows back when the working  *)
(* series has k rows, and the mean of the working series when it has       *)
(* fewer.  The residual estimate is the sum of the per-day predictions,    *)
(* and the cached history of the key is not modified.                      *)
(***************************************************************************)
SameValue(a, b) == a.num * b.den = b.num * a.den

\* The lag-k feature of the row built last, for day roll.day, after
\* roll.day - 1 days of rollout.
LagOfRow(k) ==
    IF k = 1 THEN roll.row.lag_1
    ELSE IF k = 3 THEN roll.row.lag_3
    ELSE IF k = 7 THEN roll.row.lag_7
    ELSE roll.row.lag_14

RolledOut == roll.day - 1

RowBuilt == roll.called /\ roll.day >= 1

RolloutBookkeeping ==
    roll.called =>
        /\ roll.history_df = roll.before
        /\ roll.recent = roll.before \o roll.xgb_predictions
        /\ Len(roll.xgb_predictions) = roll.day
        /\ \A i \in 1..roll.day : roll.xgb_predictions[i] >= 0
        /\ roll.status = "summed" =>
              /\ roll.day = roll.horizon_days
              /\ roll.xgb_qty = SumSeq(roll.xgb_predictions)

LagIsFedBack(k) ==
    RolledOut >= k =>
        SameValue(LagOfRow(k), Exact(roll.xgb_predictions[roll.day - k]))

C26_RolloutFeedsPredictionsBack ==
    /\ RolloutBookkeeping
    /\ RowBuilt =>
          \A k \in {1, 3, 7, 14} :
              LET H == Len(roll.before)
              IN  /\ LagIsFedBack(k)
                  /\ (RolledOut < k /\ H + RolledOut >= k) =>
                        SameValue(LagOfRow(k),
                                  Exact(roll.before[H + RolledOut - k + 1]))
                  /\ (H + RolledOut < k) =>
                        SameValue(LagOfRow(k),
                                  Mean(SubSeq(roll.recent, 1, H + RolledOut)))

\* The statement as the spec has it: before k days are rolled out, lag_k
\* is a value of the history.
C26_LagIsHistoricalBefore ==
    RowBuilt =>
        \A k \in {1, 3, 7, 14} :
            /\ LagIsFedBack(k)
            /\ RolledOut < k =>
                  \E i \in 1..Len(roll.before) :
                      SameValue(LagOfRow(k), Exact(roll.before[i]))

\* The fifteenth day of a rollout: lag_14 is the first day's prediction,
\* which the clamp raised to 0, and lag_1 the fourteenth day's, 5.
C26_Witness ==
    /\ roll.called
    /\ roll.day = 15
    /\ roll.xgb_predictions[1] = 0
    /\ roll.xgb_predictions[14] = 5
    /\ roll.row.lag_14 = Exact(0)
    /\ roll.row.lag_1 = Exact(5)
    /\ roll.status = "summed"
    /\ roll.xgb_qty > 0

(***************************************************************************)
(* C28.  total_distance_km is the length of the open path through          *)
(* ordered_stores (from the start location when one is given), computed    *)
(* the same way for the trivial, solver and fallback paths: no path adds a *)
(* leg back to the depot that another omits.                               *)
(***************************************************************************)
OpenPathStops ==
    (IF route.start # NoStart THEN <<route.start>> ELSE <<>>)
    \o [i \in 1..Len(route.ordered_stores) |->
            route.stores[route.ordered_stores[i]].lat]

OpenPathLength ==
    SumSeq([i \in 1..Len(OpenPathStops) - 1 |->
                MetresPerDegree * Abs(OpenPathStops[i + 1] - OpenPathStops[i])])

C28_DistanceIsOpenPathLength ==
    (route.called /\ route.path \in {"trivial", "solver", "fallback"}) =>
        route.total_distance_km = RoundTo(OpenPathLength, 10)

(***************************************************************************)
(* C29.  In every DemandPrediction predict returns, lower_bound <=         *)
(* predicted_qty <= upper_bound, on the heuristic path and on the ensemble *)
(* path, where the bounds come from the trend model alone and the point    *)
(* estimate from the weighted blend.                                       *)
(***************************************************************************)
C29_BoundsBracketEstimate ==
    PredictionReturned =>
        /\ dcall.result.lower_bound <= dcall.result.predicted_qty
        /\ dcall.result.predicted_qty <= dcall.result.upper_bound

\* The same on the ensemble path with a trend forecast whose own interval
\* is in order and above zero: the blend alone takes the estimate outside.
C29_EnsembleBrackets ==
    (/\ PredictionReturned
     /\ dcall.path = "ensemble"
     /\ dcall.inputs.forecast.yhat_lower >= 0) =>
        /\ dcall.result.lower_bound <= dcall.result.predicted_qty
        /\ dcall.result.predicted_qty <= dcall.result.upper_bound

(***************************************************************************)
(* C30.  In every returned AttritionPrediction and StockoutPrediction the  *)
(* risk_level equals the threshold lookup applied to the returned          *)
(* probability, the value rounded to 3 decimals: rounding after the level  *)
(* was decided never puts the reported probability on the other side of a  *)
(* threshold.                                                              *)
(***************************************************************************)
LevelOfReported(d, probability) ==
    IF d = "stockout" THEN StockoutRiskLevel(probability)
    ELSE ChurnRiskLevel(probability)

C30_LevelMatchesReportedProbability ==
    (/\ PredictCall
     /\ dom \in {"stockout", "churn"}
     /\ pred.result.outcome = "returned") =>
        pred.result.value.risk_level =
            LevelOfReported(dom, pred.result.value.probability)

\* The same for the rule-based path alone.
C30_RulePathLevelMatches ==
    (/\ PredictCall
     /\ pred.path = "rule"
     /\ dom \in {"stockout", "churn"}
     /\ pred.result.outcome = "returned") =>
        pred.result.value.risk_level =
            LevelOfReported(dom, pred.result.value.probability)

============================================================================
